---- MODULE Spec2Model ----
(***************************************************************************)
(* The NCF deep-dive notebook (notebooks/02_model/ncf_deep_dive.ipynb) as  *)
(* a state machine: one action per code cell (or per iteration of a loop   *)
(* inside a cell), run in the notebook's order.                            *)
(*                                                                         *)
(* The notebook calls into reco_utils (python_chrono_split, NCFDataset,    *)
(* NCF), whose code is not part of the notebook.  Those operators are      *)
(* written from the specification's contracts (sections 4.1 - 4.3).        *)
(***************************************************************************)
EXTENDS Integers, Sequences, FiniteSets, TLC

VARIABLES
    pc,         \* the next cell of the notebook to run
    TOP_K,      \* notebook parameter: the cutoff of the ranking metrics
    EPOCHS,     \* notebook parameter: the number of training epochs
    policy,     \* what the dataset builder does when a user has too few unseen items
    df,         \* the interaction table: a sequence of rows
    train,      \* row labels (indices into df) of the train partition
    test,       \* row labels (indices into df) of the test partition
    rng,        \* state of Python's global random generator, per run
    data,       \* the NCFDataset object, per run
    yields,     \* what each complete iteration of data.test_loader() yielded
    model,      \* the NCF object
    k,          \* the cutoff of the leave-one-out cell
    taken,      \* how many groups the loop of the cell has taken
    output,     \* the scores of the group taken last
    rank,       \* the rank computed last
    ndcgs,      \* the list of per-group NDCG values
    hit_ratio,  \* the list of per-group hit values
    eval_ndcg,  \* the name eval_ndcg
    eval_hr,    \* np.mean(hit_ratio)
    predictions,      \* the scores of the test rows (3.4.1)
    all_predictions,  \* the frame of scored unseen pairs (3.4.2, 3.5.3)
    eval_map, eval_precision, eval_recall,
    eval_map2, eval_ndcg2, eval_precision2, eval_recall2,
    recorded,   \* what pm.record has recorded, by name
    fs,         \* the directories on disk and what they hold
    cleanups    \* how many times the cleanup cell has run

vars == <<pc, TOP_K, EPOCHS, policy, df, train, test, rng, data, yields, model,
          k, taken, output, rank, ndcgs, hit_ratio, eval_ndcg, eval_hr,
          predictions, all_predictions, eval_map, eval_precision, eval_recall,
          eval_map2, eval_ndcg2, eval_precision2, eval_recall2,
          recorded, fs, cleanups>>

\* the names of the leave-one-out cell
looVars == <<k, taken, output, rank, ndcgs, hit_ratio, eval_ndcg, eval_hr>>

\* the names of the generic evaluation
evalVars == <<predictions, all_predictions, eval_map, eval_precision, eval_recall>>
eval2Vars == <<eval_map2, eval_ndcg2, eval_precision2, eval_recall2>>

\* the names of the generic evaluation, the record and the disk
runVars == <<evalVars, eval2Vars, recorded, fs, cleanups>>

\* Two executions of the same cells on the same inputs, each a process with
\* its own random generator.  Run 1 is the notebook; run 2 repeats the cells
\* that build and draw from the dataset, in step with run 1.
Runs == {1, 2}

----------------------------------------------------------------------------
(* Bounds of the model.                                                    *)

Users == {1, 2}
Items == {1, 2, 3, 4}
Times == {1, 2}

\* longest interaction table of the split specification
MaxRows == 6
\* train fractions tried are n / FracDen, n in 0 .. FracDen
FracDen == 4
\* longest table with free items of the dataset specification
DataRows == 3
\* most rows of one user in a table built of per-user blocks
MaxBlock == 6
\* most epochs of a fit, most complete iterations of test_loader
MaxEpochs == 2
MaxPasses == 2
\* largest cutoff TOP_K, number of distinct score levels of the model
MaxK == 3
MaxScore == 2
\* most rows of the first and of the second user in a table of a full run
RunBlock1 == 4
RunBlock2 == 1
\* most runs of the cleanup cell
MaxCleanups == 2

Policies == {"shrink", "resample"}

----------------------------------------------------------------------------
(* Sequence helpers.                                                       *)

Range(s) == {s[i] : i \in DOMAIN s}

NoDup(s) == \A i, j \in DOMAIN s : i # j => s[i] # s[j]

Min2(a, b) == IF a <= b THEN a ELSE b

SetMin(S) == CHOOSE x \in S : \A y \in S : x <= y

RemoveAt(s, i) == SubSeq(s, 1, i - 1) \o SubSeq(s, i + 1, Len(s))

RECURSIVE Chunks(_, _)
\* s cut into consecutive pieces of size elements (the last may be shorter)
Chunks(s, size) ==
    IF s = <<>> THEN <<>>
    ELSE <<SubSeq(s, 1, Min2(size, Len(s)))>>
         \o Chunks(SubSeq(s, size + 1, Len(s)), size)

RECURSIVE SetToSortedSeq(_)
\* the elements of a finite set of integers in ascending order
SetToSortedSeq(S) ==
    IF S = {} THEN <<>>
    ELSE LET m == CHOOSE x \in S : \A y \in S : x <= y
         IN  <<m>> \o SetToSortedSeq(S \ {m})

RECURSIVE FlattenSeq(_)
FlattenSeq(ss) ==
    IF ss = <<>> THEN <<>> ELSE Head(ss) \o FlattenSeq(Tail(ss))

----------------------------------------------------------------------------
(* Cell "Load and split data": df = movielens.load_pandas_df(...)          *)

\* the item column of a table of n rows: any items, or every row its own item
\* (as in MovieLens, where a user rates a movie once)
ItemColumns(n, free) ==
    IF free THEN [1..n -> Items]
    ELSE {[i \in 1..n |-> ((i - 1) % Cardinality(Items)) + 1]}

\* the timestamp column: any timestamps, or the rows in chronological order
TimeColumns(n, free) ==
    IF free THEN [1..n -> Times] ELSE {[i \in 1..n |-> i]}

LoadCell(maxRows, freeItems, freeTimes) ==
    /\ pc = "load"
    /\ \E n \in 0..maxRows :
         \E us \in [1..n -> Users] :
           \E its \in ItemColumns(n, freeItems) :
             \E ts \in TimeColumns(n, freeTimes) :
               df' = [i \in 1..n |->
                       [userID |-> us[i], itemID |-> its[i], timestamp |-> ts[i]]]
    /\ pc' = "split"
    /\ UNCHANGED <<TOP_K, EPOCHS, policy, train, test, rng, data, yields, model>>
    /\ UNCHANGED looVars
    /\ UNCHANGED runVars

\* the rows of user u in a block table: n rows in chronological order from
\* time t0 on, over c items (user 1 from the first item up, user 2 from the
\* last item down)
Block(u, n, c, t0) ==
    [i \in 1..n |->
        [userID |-> u,
         itemID |-> IF u = 1 THEN ((i - 1) % c) + 1
                    ELSE Cardinality(Items) - ((i - 1) % c),
         timestamp |-> t0 + i]]

\* the same cell, reading a table made of one block of rows per user
LoadBlocks(rows1, rows2) ==
    /\ pc = "load"
    /\ \E a \in rows1, b \in rows2 :
         \E c1, c2 \in 1..Cardinality(Items) :
           df' = Block(1, a, c1, 0) \o Block(2, b, c2, a)
    /\ pc' = "split"
    /\ UNCHANGED <<TOP_K, EPOCHS, policy, train, test, rng, data, yields, model>>
    /\ UNCHANGED looVars
    /\ UNCHANGED runVars

----------------------------------------------------------------------------
(* python_chrono_split(df, ratio): per user, the rows sorted by timestamp; *)
(* the earliest round(ratio * n) rows are train, the rest are test.        *)

\* the split ratio of the notebook, 0.75 = RATIO_NUM / RATIO_DEN
RATIO_NUM == 3
RATIO_DEN == 4

\* labels of the rows of user u, in table order
UserRows(table, u) ==
    SelectSeq([i \in 1..Len(table) |-> i], LAMBDA i : table[i].userID = u)

RECURSIVE InsertByTimestamp(_, _, _)
\* insert label i into the timestamp-sorted sequence s, after every row that
\* is not later than row i (rows of equal timestamp keep their table order)
InsertByTimestamp(table, s, i) ==
    IF s = <<>> THEN <<i>>
    ELSE IF table[Head(s)].timestamp <= table[i].timestamp
         THEN <<Head(s)>> \o InsertByTimestamp(table, Tail(s), i)
         ELSE <<i>> \o s

RECURSIVE SortByTimestamp(_, _)
SortByTimestamp(table, rows) ==
    IF rows = <<>> THEN <<>>
    ELSE InsertByTimestamp(table,
                           SortByTimestamp(table, SubSeq(rows, 1, Len(rows) - 1)),
                           rows[Len(rows)])

\* round(num * n / den), a tie going to the even neighbour
TrainCountFloor(n, num, den) == (num * n) \div den
TrainCount(n, num, den) ==
    LET q == (num * n) \div den
        r == (num * n) % den
    IN  IF 2 * r < den THEN q
        ELSE IF 2 * r > den THEN q + 1
        ELSE IF q % 2 = 0 THEN q ELSE q + 1

\* the two parts of one user's rows
SplitGroupOverlap(table, u, num, den) ==
    LET sorted == SortByTimestamp(table, UserRows(table, u))
        cut    == TrainCount(Len(sorted), num, den)
    IN  [train |-> SubSeq(sorted, 1, cut),
         test  |-> SubSeq(sorted, cut, Len(sorted))]
SplitGroupUnsorted(table, u, num, den) ==
    LET rows == UserRows(table, u)
        cut  == TrainCount(Len(rows), num, den)
    IN  [train |-> SubSeq(rows, 1, cut),
         test  |-> SubSeq(rows, cut + 1, Len(rows))]
SplitGroup(table, u, num, den) ==
    LET sorted == SortByTimestamp(table, UserRows(table, u))
        cut    == TrainCount(Len(sorted), num, den)
    IN  [train |-> SubSeq(sorted, 1, cut),
         test  |-> SubSeq(sorted, cut + 1, Len(sorted))]

python_chrono_split(table, num, den) ==
    LET us    == SetToSortedSeq({table[i].userID : i \in 1..Len(table)})
        parts == [j \in 1..Len(us) |-> SplitGroup(table, us[j], num, den)]
    IN  [train |-> FlattenSeq([j \in 1..Len(us) |-> parts[j].train]),
         test  |-> FlattenSeq([j \in 1..Len(us) |-> parts[j].test])]

\* cell: train, test = python_chrono_split(df, 0.75)
SplitCellLeaveOneOut ==
    /\ pc = "split"
    /\ LET us == SetToSortedSeq({df[i].userID : i \in 1..Len(df)})
           g(u) == SortByTimestamp(df, UserRows(df, u))
       IN  /\ train' = FlattenSeq([j \in 1..Len(us) |->
                                     SubSeq(g(us[j]), 1, Len(g(us[j])) - 1)])
           /\ test'  = [j \in 1..Len(us) |-> g(us[j])[Len(g(us[j]))]]
    /\ pc' = "dataset"
    /\ UNCHANGED <<TOP_K, EPOCHS, policy, df, rng, data, yields, model>>
    /\ UNCHANGED looVars
    /\ UNCHANGED runVars
SplitCell ==
    /\ pc = "split"
    /\ LET s == python_chrono_split(df, RATIO_NUM, RATIO_DEN)
       IN  /\ train' = s.train
           /\ test'  = s.test
    /\ pc' = "dataset"
    /\ UNCHANGED <<TOP_K, EPOCHS, policy, df, rng, data, yields, model>>
    /\ UNCHANGED looVars
    /\ UNCHANGED runVars

----------------------------------------------------------------------------
(* NCFDataset(train, test, seed): negative sampling.                       *)

\* negatives drawn per train positive and per test positive (4 and 100 in
\* the library), scaled to the catalogue of the model
N_NEG == 1
N_NEG_TEST == 2

\* the notebook's arguments
SEED == 42
BATCH_SIZE == 256

\* Python's global random generator, as a linear congruential generator
NextRng(r) == (5 * r + 3) % 16

\* random.seed(seed)
RandomSeed(seed) == seed % 16

\* an index in 1..n read off generator state r
DrawIndex(r, n) == ((r * n) \div 16) + 1

RECURSIVE Sample(_, _, _)
\* random.sample(pool, count): count elements of pool, none drawn twice
Sample(pool, count, r) ==
    IF count = 0 THEN [items |-> <<>>, rng |-> r]
    ELSE LET r1   == NextRng(r)
             i    == DrawIndex(r1, Len(pool))
             rest == Sample(RemoveAt(pool, i), count - 1, r1)
         IN  [items |-> <<pool[i]>> \o rest.items, rng |-> rest.rng]

RECURSIVE Resample(_, _, _)
\* count elements of a non-empty pool, drawn with replacement
Resample(pool, count, r) ==
    IF count = 0 THEN [items |-> <<>>, rng |-> r]
    ELSE LET r1   == NextRng(r)
             i    == DrawIndex(r1, Len(pool))
             rest == Resample(pool, count - 1, r1)
         IN  [items |-> <<pool[i]>> \o rest.items, rng |-> rest.rng]

SampleNegatives(pool, count, r) ==
    IF count <= Len(pool) THEN Sample(pool, count, r)
    ELSE Resample(pool, count, r)

RowsOf(trn, tst) == Range(trn) \cup Range(tst)

\* every item of the data
item_pool(table, trn, tst) == {table[i].itemID : i \in RowsOf(trn, tst)}

\* the items user u interacted with, in train or in test
Interacted(table, trn, tst, u) ==
    {table[i].itemID : i \in {j \in RowsOf(trn, tst) : table[j].userID = u}}

\* the items user u can be given as negatives
NegativePoolTrainOnly(table, trn, tst, u) ==
    item_pool(table, trn, tst)
        \ {table[i].itemID : i \in {j \in Range(trn) : table[j].userID = u}}
NegativePool(table, trn, tst, u) ==
    item_pool(table, trn, tst) \ Interacted(table, trn, tst, u)

\* with policy "resample" negatives exist only if every user has an unseen item
CanSample(pol, table, trn, tst) ==
    \/ pol = "shrink"
    \/ \A i \in RowsOf(trn, tst) :
          NegativePool(table, trn, tst, table[i].userID) # {}

\* the negatives drawn per positive of rows: want of them, or with policy
\* "shrink" the size of the smallest pool when that is less
NegCount(pol, want, table, trn, tst, rows) ==
    LET sizes == {Cardinality(NegativePool(table, trn, tst, table[i].userID))
                    : i \in Range(rows)}
    IN  IF pol = "shrink" THEN SetMin(sizes \cup {want}) ELSE want

\* one leave-one-out group: the positive, then its negatives
GroupPositiveLast(u, item, negs) ==
    [user_input |-> [j \in 1..(Len(negs) + 1) |-> u],
     item_input |-> negs \o <<item>>,
     labels     |-> [j \in 1..Len(negs) |-> 0] \o <<1>>]
Group(u, item, negs) ==
    [user_input |-> [j \in 1..(Len(negs) + 1) |-> u],
     item_input |-> <<item>> \o negs,
     labels     |-> <<1>> \o [j \in 1..Len(negs) |-> 0]]

RECURSIVE TestGroups(_, _, _, _, _, _)
\* one group per row of rows, the generator threaded through
TestGroups(table, trn, tst, rows, count, r) ==
    IF rows = <<>> THEN [groups |-> <<>>, rng |-> r]
    ELSE LET u    == table[Head(rows)].userID
             s    == SampleNegatives(
                         SetToSortedSeq(NegativePool(table, trn, tst, u)), count, r)
             rest == TestGroups(table, trn, tst, Tail(rows), count, s.rng)
         IN  [groups |-> <<Group(u, table[Head(rows)].itemID, s.items)>>
                           \o rest.groups,
              rng    |-> rest.rng]

RECURSIVE TrainSamples(_, _, _, _, _, _)
\* every positive of rows followed by its negatives, as (user, item, label)
TrainSamples(table, trn, tst, rows, count, r) ==
    IF rows = <<>> THEN [items |-> <<>>, rng |-> r]
    ELSE LET u    == table[Head(rows)].userID
             s    == SampleNegatives(
                         SetToSortedSeq(NegativePool(table, trn, tst, u)), count, r)
             rest == TrainSamples(table, trn, tst, Tail(rows), count, s.rng)
         IN  [items |-> <<[userID |-> u, itemID |-> table[Head(rows)].itemID,
                           label |-> 1]>>
                        \o [j \in 1..Len(s.items) |->
                              [userID |-> u, itemID |-> s.items[j], label |-> 0]]
                        \o rest.items,
              rng   |-> rest.rng]

\* data.train_loader(batch_size): the shuffled samples of one epoch, in batches
train_loader(table, trn, tst, pol, r) ==
    LET count == NegCount(pol, N_NEG, table, trn, tst, trn)
        smp   == TrainSamples(table, trn, tst, trn, count, r)
        shf   == Sample(smp.items, Len(smp.items), smp.rng)
    IN  [batches |-> Chunks(shf.items, BATCH_SIZE), rng |-> shf.rng]

\* data.test_loader(): the groups fixed at construction, in order
test_loaderReshuffle(d, r) ==
    LET s == Sample(d.test_data, Len(d.test_data), r)
    IN  [groups |-> s.items, rng |-> s.rng]
test_loader(d, r) == [groups |-> d.test_data, rng |-> r]

NoData == [test_data |-> <<>>, batches |-> <<>>]

\* NCFDataset(train, test, seed): seed is <<>> for None; r is the state of the
\* process's generator, which a seed replaces
NCFDataset(table, trn, tst, pol, seed, r) ==
    LET r0    == IF seed = <<>> THEN r ELSE RandomSeed(seed[1])
        count == NegCount(pol, N_NEG_TEST, table, trn, tst, tst)
        g     == TestGroups(table, trn, tst, tst, count, r0)
    IN  [data |-> [test_data |-> g.groups, batches |-> <<>>], rng |-> g.rng]

\* cell: data = NCFDataset(train=train, test=test, seed=42)
NCFDatasetCellUnseeded ==
    /\ pc = "dataset"
    /\ IF CanSample(policy, df, train, test)
       THEN /\ data' = [r \in Runs |->
                          NCFDataset(df, train, test, policy, <<>>, rng[r]).data]
            /\ rng'  = [r \in Runs |->
                          NCFDataset(df, train, test, policy, <<>>, rng[r]).rng]
            /\ pc' = "model"
       ELSE /\ pc' = "raised"
            /\ UNCHANGED <<data, rng>>
    /\ UNCHANGED <<TOP_K, EPOCHS, policy, df, train, test, yields, model>>
    /\ UNCHANGED looVars
    /\ UNCHANGED runVars
NCFDatasetCell ==
    /\ pc = "dataset"
    /\ IF CanSample(policy, df, train, test)
       THEN /\ data' = [r \in Runs |->
                          NCFDataset(df, train, test, policy, <<SEED>>, rng[r]).data]
            /\ rng'  = [r \in Runs |->
                          NCFDataset(df, train, test, policy, <<SEED>>, rng[r]).rng]
            /\ pc' = "model"
       ELSE /\ pc' = "raised"
            /\ UNCHANGED <<data, rng>>
    /\ UNCHANGED <<TOP_K, EPOCHS, policy, df, train, test, yields, model>>
    /\ UNCHANGED looVars
    /\ UNCHANGED runVars

----------------------------------------------------------------------------
(* The scoring model.  Its parameters are opaque: params says where they   *)
(* come from (the id-th random initialisation or a fusion of checkpoints)  *)
(* and how many epochs of updates they have had.  The model keeps the      *)
(* scores that the current parameters have been seen to give; whatever     *)
(* changes the parameters forgets them.                                    *)

RandomParams(id) == [id |-> id, origin |-> "random", updates |-> 0, parts |-> <<>>]

NoModel ==
    [model_type |-> "none", epoch |-> 0, params |-> RandomParams(0), scores |-> <<>>]

\* NCF(..., model_type=t, ...): a new model, its parameters initialised at random
NCF(t) ==
    [model_type |-> t, epoch |-> 0,
     params |-> RandomParams(model.params.id + 1), scores |-> <<>>]

\* cell: model = NCF(n_users, n_items, model_type="NeuMF", ...)
NCFCell ==
    /\ pc = "model"
    /\ model' = NCF("NeuMF")
    /\ pc' = "fit"
    /\ UNCHANGED <<TOP_K, EPOCHS, policy, df, train, test, rng, data, yields>>
    /\ UNCHANGED looVars
    /\ UNCHANGED runVars

\* model.fit(data), one epoch: the batches of data.train_loader are drawn and
\* the parameters updated on them; after the last epoch the notebook is at next
FitAt(at, next) ==
    /\ pc = at
    /\ model.epoch < EPOCHS
    /\ data' = [r \in Runs |->
                  [data[r] EXCEPT !.batches =
                      train_loader(df, train, test, policy, rng[r]).batches]]
    /\ rng'  = [r \in Runs |-> train_loader(df, train, test, policy, rng[r]).rng]
    /\ model' = [model EXCEPT !.epoch = @ + 1,
                              !.params.updates = @ + 1,
                              !.scores = <<>>]
    /\ pc' = IF model.epoch + 1 = EPOCHS THEN next ELSE at
    /\ UNCHANGED <<TOP_K, EPOCHS, policy, df, train, test, yields>>
    /\ UNCHANGED looVars
    /\ UNCHANGED runVars

\* cell: model.fit(data), of the first NeuMF model
FitEpoch == FitAt("fit", "predict")

\* the cells of sections 3.4.1 and 3.4.2 are left out: they assign none of
\* the names the leave-one-out cell reads
SkipEvalCells ==
    /\ pc = "predict"
    /\ pc' = "loo"
    /\ UNCHANGED <<TOP_K, EPOCHS, policy, df, train, test, rng, data, yields, model>>
    /\ UNCHANGED looVars
    /\ UNCHANGED runVars

\* list(data.test_loader()): one complete iteration of the generator
TestLoaderPass ==
    /\ pc = "loo"
    /\ Len(yields) < MaxPasses
    /\ yields' = Append(yields, test_loader(data[1], rng[1]).groups)
    /\ rng' = [rng EXCEPT ![1] = test_loader(data[1], rng[1]).rng]
    /\ UNCHANGED <<pc, TOP_K, EPOCHS, policy, df, train, test, data, model>>
    /\ UNCHANGED looVars
    /\ UNCHANGED runVars

----------------------------------------------------------------------------
(* The leave-one-out cell: HR and NDCG over the groups of test_loader.     *)

\* the levels a score of model.predict can take, in ascending order
Scores == 1..MaxScore

\* floats are kept in millionths
Micro == 1000000

\* 1 / np.log(rank + 1) in millionths, rank = 1, 2, ...
InvLog(r) ==
    <<1442695, 910239, 721348, 621335, 558111, 513898,
      480898, 455120, 434294, 417032, 402430>>[r]

RECURSIVE SumSeq(_)
SumSeq(s) == IF s = <<>> THEN 0 ELSE Head(s) + SumSeq(Tail(s))

\* a name not assigned yet; the value of 0 / 0
Unassigned == [unassigned |-> TRUE]
NaN == [num |-> 0, den |-> 0]

\* np.mean(s), as the fraction sum / length
Mean(s) == IF s = <<>> THEN NaN ELSE [num |-> SumSeq(s), den |-> Len(s)]

\* the (user, item) pairs of a group
Pairs(g) == {<<g.user_input[j], g.item_input[j]>> : j \in 1..Len(g.labels)}

\* rank = sum(output >= output[0])
RankStrict(out) ==
    1 + SumSeq([j \in 1..Len(out) |-> IF out[j] > out[1] THEN 1 ELSE 0])
Rank(out) ==
    SumSeq([j \in 1..Len(out) |-> IF out[j] >= out[1] THEN 1 ELSE 0])

\* k = TOP_K; ndcgs = []; hit_ratio = []; the for loop is entered
LooStart ==
    /\ pc = "loo"
    /\ k' = TOP_K
    /\ ndcgs' = <<>>
    /\ hit_ratio' = <<>>
    /\ taken' = 0
    /\ pc' = "loo_iter"
    /\ UNCHANGED <<TOP_K, EPOCHS, policy, df, train, test, rng, data, yields, model>>
    /\ UNCHANGED <<output, rank, eval_ndcg, eval_hr>>
    /\ UNCHANGED runVars

\* one iteration of the loop, on the next group of data.test_loader().  The
\* model's scores for pairs not scored since the last fit are any levels.
\* np.squeeze of a one-entry output is 0-dimensional, so output[0] raises.
LooStepStrictCut ==
    /\ pc = "loo_iter"
    /\ taken < Len(test_loader(data[1], rng[1]).groups)
    /\ LET g   == test_loader(data[1], rng[1]).groups[taken + 1]
           new == Pairs(g) \ DOMAIN model.scores
       IN  \E f \in [new -> Scores] :
             LET sc  == f @@ model.scores
                 out == [j \in 1..Len(g.labels) |->
                           sc[<<g.user_input[j], g.item_input[j]>>]]
             IN  /\ model' = [model EXCEPT !.scores = sc]
                 /\ taken' = taken + 1
                 /\ output' = out
                 /\ IF Len(out) = 1
                    THEN /\ pc' = "raised"
                         /\ UNCHANGED <<rank, ndcgs, hit_ratio>>
                    ELSE /\ rank' = Rank(out)
                         /\ IF Rank(out) < k
                            THEN /\ ndcgs' = Append(ndcgs, InvLog(Rank(out)))
                                 /\ hit_ratio' = Append(hit_ratio, 1)
                            ELSE /\ ndcgs' = Append(ndcgs, 0)
                                 /\ hit_ratio' = Append(hit_ratio, 0)
                         /\ pc' = pc
    /\ UNCHANGED <<TOP_K, EPOCHS, policy, df, train, test, rng, data, yields>>
    /\ UNCHANGED <<k, eval_ndcg, eval_hr>>
    /\ UNCHANGED runVars
LooStep ==
    /\ pc = "loo_iter"
    /\ taken < Len(test_loader(data[1], rng[1]).groups)
    /\ LET g   == test_loader(data[1], rng[1]).groups[taken + 1]
           new == Pairs(g) \ DOMAIN model.scores
       IN  \E f \in [new -> Scores] :
             LET sc  == f @@ model.scores
                 out == [j \in 1..Len(g.labels) |->
                           sc[<<g.user_input[j], g.item_input[j]>>]]
             IN  /\ model' = [model EXCEPT !.scores = sc]
                 /\ taken' = taken + 1
                 /\ output' = out
                 /\ IF Len(out) = 1
                    THEN /\ pc' = "raised"
                         /\ UNCHANGED <<rank, ndcgs, hit_ratio>>
                    ELSE /\ rank' = Rank(out)
                         /\ IF Rank(out) <= k
                            THEN /\ ndcgs' = Append(ndcgs, InvLog(Rank(out)))
                                 /\ hit_ratio' = Append(hit_ratio, 1)
                            ELSE /\ ndcgs' = Append(ndcgs, 0)
                                 /\ hit_ratio' = Append(hit_ratio, 0)
                         /\ pc' = pc
    /\ UNCHANGED <<TOP_K, EPOCHS, policy, df, train, test, rng, data, yields>>
    /\ UNCHANGED <<k, eval_ndcg, eval_hr>>
    /\ UNCHANGED runVars

\* the loop is exhausted: eval_ndcg = np.mean(ndcgs); eval_hr = np.mean(hit_ratio)
LooEnd ==
    /\ pc = "loo_iter"
    /\ taken = Len(test_loader(data[1], rng[1]).groups)
    /\ eval_ndcg' = Mean(ndcgs)
    /\ eval_hr' = Mean(hit_ratio)
    /\ pc' = "done"
    /\ UNCHANGED <<TOP_K, EPOCHS, policy, df, train, test, rng, data, yields, model>>
    /\ UNCHANGED <<k, taken, output, rank, ndcgs, hit_ratio>>
    /\ UNCHANGED runVars

----------------------------------------------------------------------------
(* The evaluation cells of sections 3.4.1, 3.4.2 and 3.5.3.                *)

\* a column of train
TrainColumn(col) == [i \in 1..Len(train) |-> df[train[i]][col]]

RECURSIVE Unique(_)
\* Series.unique(): the distinct values in order of first appearance
Unique(s) ==
    IF s = <<>> THEN <<>>
    ELSE LET r == Unique(SubSeq(s, 1, Len(s) - 1))
         IN  IF s[Len(s)] \in Range(r) THEN r ELSE Append(r, s[Len(s)])

\* the levels of the scores the evaluation cells below see: they score every
\* pair of a user and an item, and two levels order any two of them
EvalScores == {1, 2}

\* the scores of model.predict on pairs, sc the scores known after the call
Predict(sc, pairs) == [j \in 1..Len(pairs) |-> sc[pairs[j]]]

\* cell 3.4.1: predictions = [[userID, itemID, model.predict(userID, itemID)]
\*                            for each row of test]
PredictCell ==
    /\ pc = "predict"
    /\ LET pairs == [i \in 1..Len(test) |-> <<df[test[i]].userID, df[test[i]].itemID>>]
           new   == Range(pairs) \ DOMAIN model.scores
       IN  \E f \in [new -> EvalScores] :
             LET sc == f @@ model.scores
             IN  /\ model' = [model EXCEPT !.scores = sc]
                 /\ predictions' =
                      [i \in 1..Len(pairs) |->
                         [userID |-> pairs[i][1], itemID |-> pairs[i][2],
                          prediction |-> sc[pairs[i]]]]
    /\ pc' = "generic"
    /\ UNCHANGED <<TOP_K, EPOCHS, policy, df, train, test, rng, data, yields>>
    /\ UNCHANGED looVars
    /\ UNCHANGED <<all_predictions, eval_map, eval_precision, eval_recall>>
    /\ UNCHANGED <<eval2Vars, recorded, fs, cleanups>>

\* the loop of the cell: every user of us with every item of its, user by user
ProductPairs(us, its) ==
    FlattenSeq([a \in 1..Len(us) |-> [c \in 1..Len(its) |-> <<us[a], its[c]>>]])

\* the key of a row in the merge
KeyOf(r) == <<r.userID, r.itemID>>

\* the rows of train, as the merge reads them
TrainFrame == [x \in 1..Len(train) |->
                 [userID |-> df[train[x]].userID, itemID |-> df[train[x]].itemID]]

\* the rows of the outer merge of left (rows with a rating) and right (rows
\* with a prediction) on the pair: the rows of left joined with the rows of
\* right on the same pair, then the rows of left without one, then the rows
\* of right without one.  Every rating of train is a number; a missing
\* prediction is written 0.
MergeRows(left, right, leftKeys, rightKeys) ==
    FlattenSeq([x \in 1..Len(left) |->
                  LET m == SelectSeq(right, LAMBDA r : KeyOf(r) = KeyOf(left[x]))
                  IN  [j \in 1..Len(m) |->
                         [userID |-> left[x].userID, itemID |-> left[x].itemID,
                          rating_isnull |-> FALSE, prediction |-> m[j].prediction]]])
    \o FlattenSeq([x \in 1..Len(left) |->
                     IF KeyOf(left[x]) \in rightKeys THEN <<>>
                     ELSE <<[userID |-> left[x].userID, itemID |-> left[x].itemID,
                             rating_isnull |-> FALSE, prediction |-> 0]>>])
    \o LET rightOnly == SelectSeq(right, LAMBDA r : KeyOf(r) \notin leftKeys)
       IN  [j \in 1..Len(rightOnly) |->
              [userID |-> rightOnly[j].userID, itemID |-> rightOnly[j].itemID,
               rating_isnull |-> TRUE, prediction |-> rightOnly[j].prediction]]

\* pd.merge(train, frame, on=["userID", "itemID"], how="outer")
MergeOuter(frame) ==
    MergeRows(TrainFrame, frame,
              {KeyOf(TrainFrame[x]) : x \in 1..Len(TrainFrame)},
              {KeyOf(frame[j]) : j \in 1..Len(frame)})

\* merged[merged.rating.isnull()].drop('rating', axis=1)
UnseenUnfiltered(merged) ==
    [j \in 1..Len(merged) |->
       [userID |-> merged[j].userID, itemID |-> merged[j].itemID,
        prediction |-> merged[j].prediction]]
Unseen(merged) ==
    LET kept == SelectSeq(merged, LAMBDA r : r.rating_isnull)
    IN  [j \in 1..Len(kept) |->
           [userID |-> kept[j].userID, itemID |-> kept[j].itemID,
            prediction |-> kept[j].prediction]]

\* the items the cell scores: item = list(train.itemID.unique())
ScoredItemsOfDf == Unique([i \in 1..Len(df) |-> df[i].itemID])
ScoredItems == Unique(TrainColumn("itemID"))

\* the frame the loop of the cell builds: the pairs with their scores
ScoredFrame(pairs, sc) ==
    [j \in 1..Len(pairs) |->
       [userID |-> pairs[j][1], itemID |-> pairs[j][2],
        prediction |-> Predict(sc, pairs)[j]]]

\* the cell on the pairs it scores, sc the scores known after its predict calls
GenericEvalOnTraining(pairs, sc) ==
    /\ model' = [model EXCEPT !.scores = sc, !.params.updates = @ + 1]
    /\ all_predictions' = Unseen(MergeOuter(ScoredFrame(pairs, sc)))
GenericEvalOn(pairs, sc) ==
    /\ model' = [model EXCEPT !.scores = sc]
    /\ all_predictions' = Unseen(MergeOuter(ScoredFrame(pairs, sc)))

\* the pairs of the cell, those of them the model has not scored since its
\* parameters last changed getting any scores
GenericEvalPairs(pairs) ==
    \E f \in [Range(pairs) \ DOMAIN model.scores -> EvalScores] :
        GenericEvalOn(pairs, f @@ model.scores)

\* cells 3.4.2 and 3.5.3: predictions on all pairs of a user and an item of
\* train, less the pairs of train
GenericEval(at, next) ==
    /\ pc = at
    /\ GenericEvalPairs(ProductPairs(Unique(TrainColumn("userID")), ScoredItems))
    /\ pc' = next
    /\ UNCHANGED <<TOP_K, EPOCHS, policy, df, train, test, rng, data, yields>>
    /\ UNCHANGED looVars
    /\ UNCHANGED <<predictions, eval_map, eval_precision, eval_recall>>
    /\ UNCHANGED <<eval2Vars, recorded, fs, cleanups>>

\* cell 3.4.2, on the first NeuMF model
GenericEvalCell == GenericEval("generic", "metrics")

\* the ranking metrics of reco_utils: (rating_true, rating_pred, k) to a value

\* 1 / log2(rank + 1) in thousandths, rank = 1, 2, ...
Discount(r) == <<1000, 631, 500, 431, 387, 356, 333, 315, 301, 289, 279>>[r]

\* the rows of frame of user u
RowsOfUser(frame, u) == SelectSeq(frame, LAMBDA r : r.userID = u)

RECURSIVE SortByPrediction(_)
\* rows by descending prediction, rows of equal prediction in frame order
SortByPrediction(rows) ==
    IF rows = <<>> THEN <<>>
    ELSE LET last   == rows[Len(rows)]
             sorted == SortByPrediction(SubSeq(rows, 1, Len(rows) - 1))
             before == SelectSeq(sorted, LAMBDA r : r.prediction >= last.prediction)
             after  == SelectSeq(sorted, LAMBDA r : r.prediction < last.prediction)
         IN  before \o <<last>> \o after

\* the kk best rows of user u
TopK(frame, u, kk) ==
    LET sorted == SortByPrediction(RowsOfUser(frame, u))
    IN  SubSeq(sorted, 1, Min2(kk, Len(sorted)))

\* the items user u has in the rows tst of the table
Actual(tst, u) == {df[i].itemID : i \in {j \in Range(tst) : df[j].userID = u}}

\* the ranks in top of the items of actual
HitRanksOf(top, actual) == {r \in 1..Len(top) : top[r].itemID \in actual}

\* the ranks, among the kk best rows of u, of the items u has in tst
HitRanks(tst, frame, u, kk) == HitRanksOf(TopK(frame, u, kk), Actual(tst, u))

\* the users of tst that have rows in frame, in ascending order
CommonUsers(tst, frame) ==
    SetToSortedSeq({df[i].userID : i \in Range(tst)}
                   \cap {frame[j].userID : j \in 1..Len(frame)})

\* the mean over the users us of a per-user value in millionths
MeanOverUsers(us, value) == Mean([a \in 1..Len(us) |-> value[us[a]]])

precision_at_k(tst, frame, kk) ==
    LET v(u) == (Cardinality(HitRanks(tst, frame, u, kk)) * Micro) \div kk
    IN  MeanOverUsers(CommonUsers(tst, frame),
                      [u \in Range(CommonUsers(tst, frame)) |-> v(u)])

recall_at_k(tst, frame, kk) ==
    LET v(u) == (Cardinality(HitRanks(tst, frame, u, kk)) * Micro)
                    \div Cardinality(Actual(tst, u))
    IN  MeanOverUsers(CommonUsers(tst, frame),
                      [u \in Range(CommonUsers(tst, frame)) |-> v(u)])

\* the sum of the discounts at the ranks hits, over the discounts of the
\* first ideal ranks, in millionths
NdcgOf(hits, ideal) ==
    ((SumSeq([j \in 1..Cardinality(hits) |-> Discount(SetToSortedSeq(hits)[j])])
        * 1000) \div SumSeq([r \in 1..ideal |-> Discount(r)])) * 1000

ndcg_at_k(tst, frame, kk) ==
    LET v(u) == NdcgOf(HitRanks(tst, frame, u, kk),
                       Min2(kk, Cardinality(Actual(tst, u))))
    IN  MeanOverUsers(CommonUsers(tst, frame),
                      [u \in Range(CommonUsers(tst, frame)) |-> v(u)])

\* the average precision of hits at the ranks hits, against n actual items
ApOf(hits, n) ==
    SumSeq([j \in 1..Cardinality(hits) |->
              (j * Micro) \div SetToSortedSeq(hits)[j]]) \div n

map_at_k(tst, frame, kk) ==
    LET v(u) == ApOf(HitRanks(tst, frame, u, kk), Cardinality(Actual(tst, u)))
    IN  MeanOverUsers(CommonUsers(tst, frame),
                      [u \in Range(CommonUsers(tst, frame)) |-> v(u)])

\* cell: eval_map = map_at_k(test, all_predictions, k=TOP_K), and so on
MetricsCell ==
    /\ pc = "metrics"
    /\ eval_map' = map_at_k(test, all_predictions, TOP_K)
    /\ eval_ndcg' = ndcg_at_k(test, all_predictions, TOP_K)
    /\ eval_precision' = precision_at_k(test, all_predictions, TOP_K)
    /\ eval_recall' = recall_at_k(test, all_predictions, TOP_K)
    /\ pc' = "loo"
    /\ UNCHANGED <<TOP_K, EPOCHS, policy, df, train, test, rng, data, yields, model>>
    /\ UNCHANGED <<k, taken, output, rank, ndcgs, hit_ratio, eval_hr>>
    /\ UNCHANGED <<predictions, all_predictions>>
    /\ UNCHANGED <<eval2Vars, recorded, fs, cleanups>>

----------------------------------------------------------------------------
(* Section 3.5: pre-training, the record for tests and the cleanup.        *)

\* the checkpoint directories and their parent
GMF_DIR == ".pretrain/GMF"
MLP_DIR == ".pretrain/MLP"

\* nothing on disk
NoFiles == <<>>

\* os.path.exists(".pretrain"): fs holds the directories below .pretrain
PretrainExists(files) == DOMAIN files # {}

\* a checkpoint left in .pretrain/GMF by an earlier run
StaleFiles ==
    [d \in {GMF_DIR} |-> [model_type |-> "GMF", params |-> RandomParams(0)]]

\* model.save(dir_name): the parameters written to dir_name
Save(files, dir_name) ==
    [d \in DOMAIN files \cup {dir_name} |->
        IF d = dir_name
        THEN [model_type |-> model.model_type, params |-> model.params]
        ELSE files[d]]

\* model.load(gmf_dir, mlp_dir, alpha): the parameters of the NeuMF model
\* replaced by the fusion of the two checkpoints
Fused(files, gmf_dir, mlp_dir) ==
    [id |-> model.params.id, origin |-> "fused", updates |-> 0,
     parts |-> <<files[gmf_dir].params, files[mlp_dir].params>>]

\* cell: model = NCF(model_type="GMF", ...)
GMFCell ==
    /\ pc = "done"
    /\ model' = NCF("GMF")
    /\ pc' = "gmf_fit"
    /\ UNCHANGED <<TOP_K, EPOCHS, policy, df, train, test, rng, data, yields>>
    /\ UNCHANGED looVars
    /\ UNCHANGED runVars

\* cell: model.fit(data); model.save(dir_name=".pretrain/GMF")
FitGMF == FitAt("gmf_fit", "gmf_save")

SaveGMF ==
    /\ pc = "gmf_save"
    /\ fs' = Save(fs, GMF_DIR)
    /\ pc' = "mlp"
    /\ UNCHANGED <<TOP_K, EPOCHS, policy, df, train, test, rng, data, yields, model>>
    /\ UNCHANGED looVars
    /\ UNCHANGED <<evalVars, eval2Vars, recorded, cleanups>>

\* cell: model = NCF(model_type="MLP", ...)
MLPCell ==
    /\ pc = "mlp"
    /\ model' = NCF("MLP")
    /\ pc' = "mlp_fit"
    /\ UNCHANGED <<TOP_K, EPOCHS, policy, df, train, test, rng, data, yields>>
    /\ UNCHANGED looVars
    /\ UNCHANGED runVars

\* cell: model.fit(data); model.save(dir_name=".pretrain/MLP")
FitMLP == FitAt("mlp_fit", "mlp_save")

SaveMLPOverGMF ==
    /\ pc = "mlp_save"
    /\ fs' = Save(fs, GMF_DIR)
    /\ pc' = "neumf"
    /\ UNCHANGED <<TOP_K, EPOCHS, policy, df, train, test, rng, data, yields, model>>
    /\ UNCHANGED looVars
    /\ UNCHANGED <<evalVars, eval2Vars, recorded, cleanups>>
SaveMLP ==
    /\ pc = "mlp_save"
    /\ fs' = Save(fs, MLP_DIR)
    /\ pc' = "neumf"
    /\ UNCHANGED <<TOP_K, EPOCHS, policy, df, train, test, rng, data, yields, model>>
    /\ UNCHANGED looVars
    /\ UNCHANGED <<evalVars, eval2Vars, recorded, cleanups>>

\* cell, first statement: model = NCF(model_type="NeuMF", ...)
NeuMFCell ==
    /\ pc = "neumf"
    /\ model' = NCF("NeuMF")
    /\ pc' = "fuse"
    /\ UNCHANGED <<TOP_K, EPOCHS, policy, df, train, test, rng, data, yields>>
    /\ UNCHANGED looVars
    /\ UNCHANGED runVars

\* cell, second statement:
\* model.load(gmf_dir=".pretrain/GMF", mlp_dir=".pretrain/MLP", alpha=0.5)
LoadPretrained ==
    /\ pc = "fuse"
    /\ IF {GMF_DIR, MLP_DIR} \subseteq DOMAIN fs
       THEN /\ model' = [model EXCEPT !.params = Fused(fs, GMF_DIR, MLP_DIR),
                                     !.scores = <<>>]
            /\ pc' = "neumf_fit"
       ELSE /\ pc' = "raised"
            /\ UNCHANGED model
    /\ UNCHANGED <<TOP_K, EPOCHS, policy, df, train, test, rng, data, yields>>
    /\ UNCHANGED looVars
    /\ UNCHANGED runVars

\* cell: model.fit(data), of the pre-trained NeuMF model
FitNeuMF == FitAt("neumf_fit", "generic2")

\* cell 3.5.3, on the pre-trained NeuMF model
GenericEvalCell2 == GenericEval("generic2", "metrics2")

\* cell: eval_map2 = map_at_k(test, all_predictions, k=TOP_K), and so on
MetricsCell2 ==
    /\ pc = "metrics2"
    /\ eval_map2' = map_at_k(test, all_predictions, TOP_K)
    /\ eval_ndcg2' = ndcg_at_k(test, all_predictions, TOP_K)
    /\ eval_precision2' = precision_at_k(test, all_predictions, TOP_K)
    /\ eval_recall2' = recall_at_k(test, all_predictions, TOP_K)
    /\ pc' = "record"
    /\ UNCHANGED <<TOP_K, EPOCHS, policy, df, train, test, rng, data, yields, model>>
    /\ UNCHANGED looVars
    /\ UNCHANGED <<evalVars, recorded, fs, cleanups>>

\* cell: pm.record("map", eval_map); pm.record("ndcg", eval_ndcg); ...
RecordCell ==
    /\ pc = "record"
    /\ recorded' = [map        |-> eval_map,
                    ndcg       |-> eval_ndcg,
                    precision  |-> eval_precision,
                    recall     |-> eval_recall,
                    map2       |-> eval_map2,
                    ndcg2      |-> eval_ndcg2,
                    precision2 |-> eval_precision2,
                    recall2    |-> eval_recall2]
    /\ pc' = "cleanup"
    /\ UNCHANGED <<TOP_K, EPOCHS, policy, df, train, test, rng, data, yields, model>>
    /\ UNCHANGED looVars
    /\ UNCHANGED <<evalVars, eval2Vars, fs, cleanups>>

\* cell: if os.path.exists(".pretrain"): shutil.rmtree(".pretrain").  The
\* cell can be run again once the notebook has ended.
CleanupUnguarded ==
    /\ pc \in {"cleanup", "end"}
    /\ cleanups < MaxCleanups
    /\ fs' = NoFiles
    /\ cleanups' = cleanups + 1
    /\ pc' = IF PretrainExists(fs) THEN "end" ELSE "raised"
    /\ UNCHANGED <<TOP_K, EPOCHS, policy, df, train, test, rng, data, yields, model>>
    /\ UNCHANGED looVars
    /\ UNCHANGED <<evalVars, eval2Vars, recorded>>
CleanupCell ==
    /\ pc \in {"cleanup", "end"}
    /\ cleanups < MaxCleanups
    /\ fs' = IF PretrainExists(fs) THEN NoFiles ELSE fs
    /\ cleanups' = cleanups + 1
    /\ pc' = "end"
    /\ UNCHANGED <<TOP_K, EPOCHS, policy, df, train, test, rng, data, yields, model>>
    /\ UNCHANGED looVars
    /\ UNCHANGED <<evalVars, eval2Vars, recorded>>

----------------------------------------------------------------------------
(* Specifications.                                                         *)

\* the defaults of the notebook's parameter cell
TOP_K_DEFAULT == 10
EPOCHS_DEFAULT == 200

\* the state before the first data cell, the parameters set (papermill) to
\* values of ks and es, the builder's policy one of pols and the disk one of fss
InitWith(ks, es, pols, fss) ==
    /\ pc = "load"
    /\ TOP_K \in ks
    /\ EPOCHS \in es
    /\ policy \in pols
    /\ df = <<>>
    /\ train = <<>>
    /\ test = <<>>
    /\ rng = [r \in Runs |-> r - 1]
    /\ data = [r \in Runs |-> NoData]
    /\ yields = <<>>
    /\ model = NoModel
    /\ k = 0
    /\ taken = 0
    /\ output = <<>>
    /\ rank = 0
    /\ ndcgs = <<>>
    /\ hit_ratio = <<>>
    /\ eval_ndcg = Unassigned
    /\ eval_hr = Unassigned
    /\ predictions = <<>>
    /\ all_predictions = <<>>
    /\ eval_map = Unassigned
    /\ eval_precision = Unassigned
    /\ eval_recall = Unassigned
    /\ eval_map2 = Unassigned
    /\ eval_ndcg2 = Unassigned
    /\ eval_precision2 = Unassigned
    /\ eval_recall2 = Unassigned
    /\ recorded = <<>>
    /\ fs \in fss
    /\ cleanups = 0

Init == InitWith({TOP_K_DEFAULT}, {EPOCHS_DEFAULT}, Policies, {NoFiles})

InitSplit == InitWith({TOP_K_DEFAULT}, {EPOCHS_DEFAULT}, {"shrink"}, {NoFiles})

NextSplit == LoadCell(MaxRows, FALSE, TRUE) \/ SplitCell

SpecSplit == InitSplit /\ [][NextSplit]_vars

InitData == InitWith({TOP_K_DEFAULT}, {MaxEpochs}, Policies, {NoFiles})

NextData ==
    \/ LoadCell(DataRows, TRUE, FALSE)
    \/ LoadBlocks(0..MaxBlock, 0..MaxBlock)
    \/ SplitCell
    \/ NCFDatasetCell
    \/ NCFCell
    \/ FitEpoch
    \/ SkipEvalCells
    \/ TestLoaderPass

SpecData == InitData /\ [][NextData]_vars

InitLoo == InitWith(1..MaxK, {1}, Policies, {NoFiles})

NextLoo ==
    \/ LoadBlocks(0..MaxBlock, 0..3)
    \/ SplitCell
    \/ NCFDatasetCell
    \/ NCFCell
    \/ FitEpoch
    \/ SkipEvalCells
    \/ LooStart
    \/ LooStep
    \/ LooEnd

SpecLoo == InitLoo /\ [][NextLoo]_vars

InitRun == InitWith({1, TOP_K_DEFAULT}, {1}, {"shrink"}, {NoFiles, StaleFiles})

NextRun ==
    \/ LoadBlocks(0..RunBlock1, 0..RunBlock2)
    \/ SplitCell
    \/ NCFDatasetCell
    \/ NCFCell
    \/ FitEpoch
    \/ PredictCell
    \/ GenericEvalCell
    \/ MetricsCell
    \/ LooStart
    \/ LooStep
    \/ LooEnd
    \/ GMFCell
    \/ FitGMF
    \/ SaveGMF
    \/ MLPCell
    \/ FitMLP
    \/ SaveMLP
    \/ NeuMFCell
    \/ LoadPretrained
    \/ FitNeuMF
    \/ GenericEvalCell2
    \/ MetricsCell2
    \/ RecordCell
    \/ CleanupCell

SpecRun == InitRun /\ [][NextRun]_vars

----------------------------------------------------------------------------
(* Properties of the chronological split.                                  *)

UsersOf(table) == {table[i].userID : i \in 1..Len(table)}

\* the rows of user u among the labels of s
OfUser(s, u) == {i \in Range(s) : df[i].userID = u}

IsPartition(table, s) ==
    /\ NoDup(s.train \o s.test)
    /\ Range(s.train) \cap Range(s.test) = {}
    /\ Range(s.train) \cup Range(s.test) = 1..Len(table)

\* C1: train and test of the chronological split are disjoint and together
\* hold every row of the table exactly once, for the notebook's split and
\* for every train fraction n / FracDen.
C1_SplitIsPartition ==
    pc = "dataset" =>
        /\ IsPartition(df, [train |-> train, test |-> test])
        /\ \A n \in 0..FracDen :
              IsPartition(df, python_chrono_split(df, n, FracDen))

C1_Witness ==
    /\ pc = "dataset"
    /\ Cardinality(UsersOf(df)) = 2
    /\ Len(train) >= 3
    /\ Len(test) >= 1

\* C2: for every user, no train row of the user is later than a test row of
\* the same user (the earliest rows are train, the most recent are test).
C2_TrainBeforeTest ==
    pc = "dataset" =>
        \A i \in Range(train), j \in Range(test) :
            df[i].userID = df[j].userID => df[i].timestamp <= df[j].timestamp

\* a user whose rows are not in chronological order in the table and who has
\* rows on both sides of the split
C2_Witness ==
    /\ pc = "dataset"
    /\ \E i \in Range(train), j \in Range(test) :
          /\ df[i].userID = df[j].userID
          /\ j < i
          /\ df[j].timestamp > df[i].timestamp

\* C3: every user of test is a user of train, and the single row of a user
\* with one interaction is in train, not in test.
C3_TestUsersInTrain ==
    pc = "dataset" =>
        /\ \A j \in Range(test) : OfUser(train, df[j].userID) # {}
        /\ \A u \in UsersOf(df) :
              Len(UserRows(df, u)) = 1 =>
                  /\ UserRows(df, u)[1] \in Range(train)
                  /\ UserRows(df, u)[1] \notin Range(test)

C3_Witness ==
    /\ pc = "dataset"
    /\ \E u, v \in UsersOf(df) :
          /\ Len(UserRows(df, u)) = 1
          /\ OfUser(test, v) # {}

----------------------------------------------------------------------------
(* Properties of the dataset builder.                                      *)

Built == pc \in {"model", "fit", "predict", "loo"}

\* the (user, item) pairs that are positives, in train or in test
PositivePairs ==
    {<<df[i].userID, df[i].itemID>> : i \in Range(train) \cup Range(test)}

\* the (user, item) pairs given label 0 in a test group of run r
TestNegatives(r) ==
    UNION {{<<g.user_input[j], g.item_input[j]>> :
              j \in {x \in 1..Len(g.labels) : g.labels[x] = 0}}
           : g \in Range(data[r].test_data)}

\* the (user, item) pairs given label 0 in a training batch of run r
TrainNegatives(r) ==
    UNION {{<<b[j].userID, b[j].itemID>> :
              j \in {x \in 1..Len(b) : b[x].label = 0}}
           : b \in Range(data[r].batches)}

\* C5: no pair sampled as a negative, for a training batch or for a test
\* group, is a positive of the user in train or in test.
C5_NegativesNeverPositives ==
    \A r \in Runs :
        (TestNegatives(r) \cup TrainNegatives(r)) \cap PositivePairs = {}

\* negatives were drawn for training and for a test positive that is not
\* among the user's train items
C5_Witness ==
    /\ TrainNegatives(1) # {}
    /\ TestNegatives(1) # {}
    /\ \E i \in Range(test) :
         /\ \A j \in Range(train) :
                df[j].userID = df[i].userID => df[j].itemID # df[i].itemID
         /\ \E q \in TestNegatives(1) : q[1] = df[i].userID

\* what test_loader yields now
Yielded == test_loader(data[1], rng[1]).groups

\* group g is led by the positive of test row i, label 1, and has only
\* label-0 entries of the same user after it
LedByPositive(g, i) ==
    /\ Len(g.labels) >= 1
    /\ Len(g.user_input) = Len(g.labels)
    /\ Len(g.item_input) = Len(g.labels)
    /\ g.user_input[1] = df[i].userID
    /\ g.item_input[1] = df[i].itemID
    /\ g.labels[1] = 1
    /\ \A j \in 2..Len(g.labels) :
          g.labels[j] = 0 /\ g.user_input[j] = df[i].userID

EnoughUnseen ==
    \A i \in Range(test) :
        Cardinality(NegativePool(df, train, test, df[i].userID)) >= N_NEG_TEST

C7_SeedDeterminism ==
    /\ data[1] = data[2]
    /\ \A p, q \in DOMAIN yields : yields[p] = yields[q]

\* two constructions, started from different generator states, hold
\* negatives for test and for training, and test_loader was iterated twice
C7_Witness ==
    /\ pc = "loo"
    /\ TestNegatives(1) # {} /\ TestNegatives(2) # {}
    /\ TrainNegatives(1) # {} /\ TrainNegatives(2) # {}
    /\ Len(yields) = 2
    /\ Len(yields[1]) >= 2

----------------------------------------------------------------------------
(* Properties of the leave-one-out cell.                                   *)

\* the loop has ranked the group it took last
Ranked == pc \in {"loo_iter", "done"} /\ taken >= 1

\* the groups the loop iterates over
LooGroups == test_loader(data[1], rng[1]).groups

\* the negatives of the last output scored above, and level with, the positive
Above == {j \in 2..Len(output) : output[j] > output[1]}
Level == {j \in 2..Len(output) : output[j] = output[1]}

\* C8: the rank of a group's positive is the number of entries of the group
\* scored at least as high as the positive, itself included; it lies between
\* 1 and the group size, and every negative level with the positive adds 1.
C8_RankCountsTies ==
    Ranked =>
        /\ Len(output) = Len(LooGroups[taken].labels)
        /\ rank = Cardinality({j \in 1..Len(output) : output[j] >= output[1]})
        /\ 1 <= rank
        /\ rank <= Len(output)
        /\ rank = 1 + Cardinality(Above) + Cardinality(Level)

\* a group was ranked in which one negative ties the positive and another
\* is scored above it
C8_Witness ==
    /\ Ranked
    /\ Above # {}
    /\ Level # {}
    /\ rank = 3

\* the score the model gave entry j of group g, and the positive's rank in g
ScoreOf(g, j) == model.scores[<<g.user_input[j], g.item_input[j]>>]
RankOf(g) ==
    Cardinality({j \in 1..Len(g.labels) : ScoreOf(g, j) >= ScoreOf(g, 1)})

\* the groups taken so far whose positive ranks within the cutoff
HitGroups == {i \in 1..taken : RankOf(LooGroups[i]) <= TOP_K}

C10_TopScoreGivesOne ==
    (Ranked /\ \A j \in 2..Len(output) : output[j] < output[1]) =>
        /\ rank = 1
        /\ hit_ratio[taken] = 1
        /\ ndcgs[taken] = Micro

\* C11: over one or more groups the final HR and NDCG, and every per-group
\* NDCG value, lie between 0 and 1.
C11_WithinUnitInterval ==
    (pc = "done" /\ taken >= 1) =>
        /\ 0 <= eval_hr.num /\ eval_hr.num <= eval_hr.den
        /\ 0 <= eval_ndcg.num /\ eval_ndcg.num <= eval_ndcg.den * Micro
        /\ \A i \in 1..Len(ndcgs) : 0 <= ndcgs[i] /\ ndcgs[i] <= Micro

\* C14: with an empty test set the cell does not end with NaN for HR or for
\* NDCG (it ends with a value, or it does not end because an error is raised).
C14_EmptyTestDefined ==
    (pc = "done" /\ test = <<>>) => (eval_hr # NaN /\ eval_ndcg # NaN)

\* every score the model has given since its last fit is the same
ConstantModel == \A p, q \in DOMAIN model.scores : model.scores[p] = model.scores[q]

\* C18: when all scores of a group are equal the positive's rank is the group
\* size; a model giving one constant score, evaluated on groups all larger
\* than K, ends with HR = 0 and NDCG = 0.
C18_ConstantScoresMiss ==
    /\ (Ranked /\ \A j \in 1..Len(output) : output[j] = output[1]) =>
            rank = Len(output)
    /\ (/\ pc = "done"
        /\ taken >= 1
        /\ ConstantModel
        /\ \A i \in 1..Len(LooGroups) : Len(LooGroups[i].labels) > TOP_K) =>
            /\ eval_hr = [num |-> 0, den |-> Len(LooGroups)]
            /\ eval_ndcg = [num |-> 0, den |-> Len(LooGroups)]

\* the cell ended over two groups larger than K, all scores equal
C18_Witness ==
    /\ pc = "done"
    /\ taken >= 2
    /\ ConstantModel
    /\ \A i \in 1..Len(LooGroups) : Len(LooGroups[i].labels) > TOP_K
    /\ rank = Len(output)
    /\ TOP_K >= 2

----------------------------------------------------------------------------
(* Properties of the generic evaluation and of the full run.               *)

\* the cells between the first generic evaluation and the next model, and
\* the cells after the second: the model is the one all_predictions scored
AfterEval1 == pc \in {"metrics", "loo", "loo_iter", "done"}
AfterEval2 == pc \in {"metrics2", "record", "cleanup", "end"}

\* the cells after the first generic evaluation has assigned all_predictions
HasPredictions ==
    \/ AfterEval1
    \/ AfterEval2
    \/ pc \in {"gmf_fit", "gmf_save", "mlp", "mlp_fit", "mlp_save", "neumf",
               "fuse", "neumf_fit", "generic2"}

TrainUsers == {df[i].userID : i \in Range(train)}
TrainItems == {df[i].itemID : i \in Range(train)}
TrainPairs == {<<df[i].userID, df[i].itemID>> : i \in Range(train)}

\* the pairs of the rows of all_predictions, row by row
PredictedPairs ==
    [j \in 1..Len(all_predictions) |->
        <<all_predictions[j].userID, all_predictions[j].itemID>>]

\* C12: all_predictions holds exactly the pairs of a user of train and an
\* item of train that are not interactions of train, each once and with the
\* score the model gives it.
C12_UnseenPairsExactlyOnce ==
    /\ HasPredictions =>
          /\ Range(PredictedPairs) = (TrainUsers \X TrainItems) \ TrainPairs
          /\ NoDup(PredictedPairs)
    /\ (AfterEval1 \/ AfterEval2) =>
          \A j \in 1..Len(all_predictions) :
              all_predictions[j].prediction = model.scores[PredictedPairs[j]]

\* the second generic evaluation has kept three or more unseen pairs and
\* dropped the pairs of a train of two users
C12_Witness ==
    /\ pc = "metrics2"
    /\ Len(all_predictions) >= 3
    /\ Cardinality(TrainUsers) = 2
    /\ Cardinality(TrainPairs) >= 3

\* the frames with the pairs of frame, in its order, and any scores
FramesLike(frame) ==
    {[j \in 1..Len(frame) |->
         [userID |-> frame[j].userID, itemID |-> frame[j].itemID,
          prediction |-> f[j]]] : f \in [1..Len(frame) -> EvalScores]}

Recorded == pc \in {"cleanup", "end"}

\* C13: what is recorded under 'ndcg' is ndcg_at_k of the same generic
\* evaluation (one frame of scores of the unseen pairs, at cutoff TOP_K) as
\* what is recorded under 'map', 'precision' and 'recall'; what is recorded
\* under 'map2', 'ndcg2', 'precision2', 'recall2' are the metrics of the
\* generic evaluation of the pre-trained model.
C13_RecordedFromGenericEval ==
    Recorded =>
        /\ \E F \in FramesLike(all_predictions) :
              /\ recorded.map = map_at_k(test, F, TOP_K)
              /\ recorded.ndcg = ndcg_at_k(test, F, TOP_K)
              /\ recorded.precision = precision_at_k(test, F, TOP_K)
              /\ recorded.recall = recall_at_k(test, F, TOP_K)
        /\ recorded.map2 = map_at_k(test, all_predictions, TOP_K)
        /\ recorded.ndcg2 = ndcg_at_k(test, all_predictions, TOP_K)
        /\ recorded.precision2 = precision_at_k(test, all_predictions, TOP_K)
        /\ recorded.recall2 = recall_at_k(test, all_predictions, TOP_K)

\* the steps that leave the current model in place and change its parameters
ParamsChange ==
    model'.params.id = model.params.id /\ model'.params # model.params

\* the scores the model has given are the scores it gives after the step
ScoresKept ==
    \A p \in DOMAIN model.scores :
        p \in DOMAIN model'.scores /\ model'.scores[p] = model.scores[p]

FitSteps == {"fit", "gmf_fit", "mlp_fit", "neumf_fit"}

\* C15 as stated: only a step of fit changes the parameters of the current
\* model (so predict, save, load, test_loader, the metrics and the cleanup
\* do not).
C15_OnlyFitChangesParams == [][ParamsChange => pc \in FitSteps]_vars

\* C15: only a step of fit or the fusion load changes the parameters of the
\* current model; every other step leaves them and the scores they give
\* unchanged, so the leave-one-out cell sees for a held-out positive the
\* score cell 3.4.1 saw.
C15_OnlyFitAndLoadChangeParams ==
    /\ [][/\ ParamsChange => pc \in FitSteps \cup {"fuse"}
          /\ model'.params = model.params => ScoresKept]_vars
    /\ [](Ranked /\ predictions # <<>> =>
             output[1] = predictions[taken].prediction)

\* the run has ended: the model was loaded, fitted and evaluated, and the
\* first model's score of a held-out positive was read in two cells
C15_Witness ==
    /\ pc = "end"
    /\ model.params.origin = "fused"
    /\ model.params.updates = EPOCHS
    /\ DOMAIN model.scores # {}
    /\ taken >= 1
    /\ Len(predictions) >= 1

\* a checkpoint of a model of type t that fit has trained for EPOCHS epochs
Trained(ckpt, t) ==
    /\ ckpt.model_type = t
    /\ ckpt.params.origin = "random"
    /\ ckpt.params.updates = EPOCHS

\* the parameters of the current model are those model.load has written
Loaded == model.params.origin = "fused"

\* the cells from the fit of the pre-trained NeuMF model on
FromNeuMFFit ==
    pc \in {"neumf_fit", "generic2", "metrics2", "record", "cleanup", "end"}

\* C16: when model.load runs, .pretrain/GMF holds the saved parameters of the
\* fitted GMF model and .pretrain/MLP those of the fitted MLP model, so the
\* load never fails; loaded parameters are the fusion of these two; the
\* NeuMF fit runs on loaded parameters; and .pretrain is removed only after
\* the load.
C16_LoadAfterSavesBeforeFit ==
    /\ [](pc = "fuse" =>
             /\ {GMF_DIR, MLP_DIR} \subseteq DOMAIN fs
             /\ Trained(fs[GMF_DIR], "GMF")
             /\ Trained(fs[MLP_DIR], "MLP"))
    /\ [](Loaded =>
             /\ Trained([model_type |-> "GMF", params |-> model.params.parts[1]], "GMF")
             /\ Trained([model_type |-> "MLP", params |-> model.params.parts[2]], "MLP"))
    /\ [](FromNeuMFFit => Loaded /\ model.model_type = "NeuMF")
    /\ [][/\ pc = "fuse" => pc' = "neumf_fit" /\ Loaded'
          /\ PretrainExists(fs) /\ ~PretrainExists(fs') => Loaded]_vars

\* model.load has just run, on a directory tree that held a stale GMF
\* checkpoint when the notebook started
C16_Witness ==
    /\ pc = "neumf_fit"
    /\ Loaded
    /\ model.params.updates = 0
    /\ {GMF_DIR, MLP_DIR} \subseteq DOMAIN fs
    /\ cleanups = 0

\* C17: a run of the cleanup cell leaves no .pretrain directory, removes
\* nothing when there was none, raises no error, and leaves the recorded
\* metrics as they were.
C17_CleanupIdempotent ==
    [][cleanups' = cleanups + 1 =>
          /\ ~PretrainExists(fs')
          /\ (~PretrainExists(fs) => fs' = fs)
          /\ pc' # "raised"
          /\ recorded' = recorded]_vars

\* the cleanup cell has run twice, the second time with no .pretrain
C17_Witness ==
    /\ cleanups = 2
    /\ ~PretrainExists(fs)
    /\ pc = "end"
    /\ DOMAIN recorded # {}

\* the rows of test whose item no row of train has
OnlyInTest == {i \in Range(test) : df[i].itemID \notin TrainItems}

\* the users of the table
DfUsers == {df[i].userID : i \in 1..Len(df)}

\* C19: every row of all_predictions has a user of train and an item of
\* train; an item only test holds is in no row, and no hit of the top-K
\* evaluation is on it.
C19_OnlyTrainItemsScored ==
    HasPredictions =>
        /\ \A j \in 1..Len(all_predictions) :
              /\ all_predictions[j].userID \in TrainUsers
              /\ all_predictions[j].itemID \in TrainItems
        /\ \A i \in OnlyInTest : \A u \in DfUsers :
              \A r \in HitRanks(test, all_predictions, u, TOP_K) :
                  TopK(all_predictions, u, TOP_K)[r].itemID # df[i].itemID

\* test holds an item train lacks, and the evaluation has scored pairs of
\* the user who has it
C19_Witness ==
    /\ pc = "metrics"
    /\ \E i \in OnlyInTest :
          \E j \in 1..Len(all_predictions) :
              all_predictions[j].userID = df[i].userID

====
